---- MODULE Spec2Model ----
(***************************************************************************)
(* Recordly: the recording engine (recorder.js) driven by the application  *)
(* controller (script.js), as a state machine.                             *)
(*                                                                         *)
(* One step of the model is one task of the browser's event loop together  *)
(* with every microtask (promise continuation) it triggers: a user event,  *)
(* the resolution of a platform promise (getDisplayMedia, getUserMedia,    *)
(* video.play, AudioContext.close), an event of an encoder, a worker       *)
(* message, or a timer.  Tasks interleave freely.                          *)
(*                                                                         *)
(* A stream is the set of its tracks; the null stream is the empty set.    *)
(* Object references are small naturals, 0 is null.  The encoder, the      *)
(* worker, the canvas and the audio context created by start call s are    *)
(* numbered s.                                                             *)
(***************************************************************************)
EXTENDS Integers, Sequences, FiniteSets, TLC

\* ------------------------------------------------------------------ bounds
\* A run is either one long session or several short ones, which may overlap:
\* start() calls of a run of several sessions
MaxStarts == 2
\* stop() calls and non-empty payloads of a run of one session
MaxStops == 2
MaxPayloads == 3
\* stop() calls and non-empty payloads of a run of several sessions
FewStops == 1
FewPayloads == 1
\* combined-mode recordings started in one run
MaxCombined == 1
\* disruptions of one run: a refused or failed acquisition, a worker error,
\* an encoder error, a screen share ended by the user, a page unload
MaxFaults == 1
\* frames each input reader of the compositor worker delivers
MaxFrames == 3
\* capacity of the chunk queue (recorder.js:25 sets 1000; the model keeps the
\* eviction logic and scales the capacity down so that eviction happens)
maxChunks == 2

VARIABLES
  \* ---- Recorder fields (recorder.js:7-26)
  mediaRecorder,   \* this.mediaRecorder: encoder id, 0 = null
  chunks,          \* this.chunks
  streams,         \* this.streams: [screen, webcam, combined]
  worker,          \* this.worker: worker id, 0 = null
  canvas,          \* this.canvas: canvas id, 0 = null
  canvasStream,    \* this.canvasStream
  audioContext,    \* this.audioContext: context id, 0 = null
  isRecording,     \* this.isRecording
  \* ---- platform objects
  host,            \* what the browser offers: [webCodecs, offscreenCanvas,
                   \* codecs, displayAudio, mixThrows]
  enc,             \* MediaRecorder objects, by id
  live,            \* tracks whose readyState is "live"
  loops,           \* canvases whose drawFrame is scheduled, as <<start, slot>>
  connected,       \* source.connect(destination) calls made, as
                   \* <<input track, track of the destination>>
  wrk,             \* compositor workers, by id
  timer,           \* the 5 s readiness timers, by start call
  \* ---- asynchronous calls in flight
  st,              \* start() calls (and the startRecording() awaiting each)
  cv,              \* createCombinedStreamCanvas() calls awaiting loadedmetadata
  sp,              \* stop() calls (and the stopRecording() awaiting each)
  closing,         \* un-awaited cleanup() calls suspended in audioContext.close()
  \* ---- RecordlyApp state (script.js:11-25), what updateUI last displayed,
  \* and how many "error" events of the recorder its listener has handled
  app,
  \* ---- history
  delivered,       \* payloads enqueued since the queue was last emptied
  nPayload,        \* non-empty payloads delivered so far
  emitted,         \* the data of the 'dataavailable' events emitted so far
  nFault,          \* disruptions so far
  budget,          \* what this run may spend: [starts, stops, payloads]
  \* ---- inside the compositor worker (compositor.worker.js:3-12)
  wk               \* its variables, its frames, where composeLoop stands

mainVars == <<mediaRecorder, chunks, streams, worker, canvas, canvasStream,
              audioContext, isRecording, host, enc, live, loops, connected,
              wrk, timer, st, cv, sp, closing, app, delivered, nPayload, emitted, nFault,
              budget>>

vars == <<mainVars, wk>>

Starts == 1..MaxStarts
Stops == 1..MaxStops

Budgets ==
  { [starts |-> 1, stops |-> MaxStops, payloads |-> MaxPayloads],
    [starts |-> MaxStarts, stops |-> FewStops, payloads |-> FewPayloads] }

\* compositor.worker.js:83-86: the result of one reader.read(), not settled,
\* {done: true} or {value: frame}
NoRead == [settled |-> FALSE, done |-> FALSE, value |-> 0]

\* compositor.worker.js:3-12 and 57-58: the worker before its "init" message.
\* A frame is <<origin, number>>; open holds the frames not yet closed.
WkIdle ==
  [pc |-> "idle", isRunning |-> FALSE, writer |-> "none", direct |-> FALSE,
   screenFrame |-> 0, webcamFrame |-> 0, s |-> NoRead, w |-> NoRead,
   open |-> {}, nScreen |-> 0, nWebcam |-> 0, nComposed |-> 0, written |-> 0,
   posted |-> <<>>]

NoStream == {}
NoStreams == [screen |-> NoStream, webcam |-> NoStream, combined |-> NoStream]

\* The state as one record, so that the steps of a handler compose.
Cur ==
  [mediaRecorder |-> mediaRecorder, chunks |-> chunks, streams |-> streams,
   worker |-> worker, canvas |-> canvas, canvasStream |-> canvasStream,
   audioContext |-> audioContext, isRecording |-> isRecording, host |-> host,
   enc |-> enc, live |-> live, loops |-> loops,
   connected |-> connected, wrk |-> wrk, timer |-> timer, st |-> st,
   cv |-> cv, sp |-> sp, closing |-> closing, app |-> app,
   delivered |-> delivered, nPayload |-> nPayload, emitted |-> emitted,
   nFault |-> nFault]

Commit(w) ==
  /\ mediaRecorder' = w.mediaRecorder
  /\ chunks' = w.chunks
  /\ streams' = w.streams
  /\ worker' = w.worker
  /\ canvas' = w.canvas
  /\ canvasStream' = w.canvasStream
  /\ audioContext' = w.audioContext
  /\ isRecording' = w.isRecording
  /\ host' = w.host
  /\ enc' = w.enc
  /\ live' = w.live
  /\ loops' = w.loops
  /\ connected' = w.connected
  /\ wrk' = w.wrk
  /\ timer' = w.timer
  /\ st' = w.st
  /\ cv' = w.cv
  /\ sp' = w.sp
  /\ closing' = w.closing
  /\ app' = w.app
  /\ delivered' = w.delivered
  /\ nPayload' = w.nPayload
  /\ emitted' = w.emitted
  /\ nFault' = w.nFault
  /\ budget' = budget
  /\ wk' = wk


\* ------------------------------------------------------------ the host
\* recorder.js:475-480, the preference list of setupRecorder
mimeTypes ==
  << "video/webm;codecs=vp9,opus", "video/webm;codecs=vp8,opus",
     "video/webm;codecs=h264,opus", "video/webm" >>

AllCodecs == {mimeTypes[i] : i \in 1..Len(mimeTypes)}

\* What a host offers: the capabilities webCodecs and offscreenCanvas that
\* detectCapabilities passes to the recorder (script.js:224-230, 254), the
\* MIME types MediaRecorder.isTypeSupported accepts, whether a display capture
\* asked for audio comes with an audio track (the user may share none), and
\* where building the audio mix throws: nowhere ("no"), in new AudioContext()
\* ("context"), in createMediaStreamDestination() ("destination") or in the
\* first createMediaStreamSource() ("source").
MixThrows == {"no", "context", "destination", "source"}

\* The hosts of the model: with and without the accelerated path
\* (capabilities.webCodecs && capabilities.offscreenCanvas), supporting every
\* codec of the list or none of them.
Hosts ==
  { [webCodecs |-> a, offscreenCanvas |-> a, codecs |-> c,
     displayAudio |-> TRUE, mixThrows |-> "no"] :
       a \in BOOLEAN, c \in {AllCodecs, {}} }

\* a negotiation that keeps walking and ends on the last supported entry
RECURSIVE selectMimeTypeLast(_, _)
selectMimeTypeLast(supported, i) ==
  IF i > Len(mimeTypes) THEN ""
  ELSE LET later == selectMimeTypeLast(supported, i + 1)
       IN IF later # "" THEN later
          ELSE IF mimeTypes[i] \in supported THEN mimeTypes[i] ELSE ""

\* recorder.js:482-488: the first entry of the list the host supports, from
\* entry i on; "" when there is none (selectedMimeType stays undefined)
RECURSIVE selectMimeType(_, _)
selectMimeType(supported, i) ==
  IF i > Len(mimeTypes) THEN ""
  ELSE IF mimeTypes[i] \in supported THEN mimeTypes[i]
  ELSE selectMimeType(supported, i + 1)

\* ----------------------------------------------------------- the tracks
\* A track is <<s, kind>>: created by (or for) start call s.
screenTracks(s, cfg) ==
  {<<s, "screenV">>} \cup (IF cfg.audio.system THEN {<<s, "screenA">>} ELSE {})

webcamTracks(s, cfg) ==
  {<<s, "webcamV">>} \cup (IF cfg.audio.mic THEN {<<s, "webcamA">>} ELSE {})

getAudioTracks(stream) ==
  {t \in stream : t[2] \in {"screenA", "webcamA", "mixW", "mixA", "mixB"}}
getVideoTracks(stream) == stream \ getAudioTracks(stream)

\* recorder.js:92-99: what getDisplayMedia resolves with; audio is asked for
\* by audio.system and granted only if the user shares some
getDisplayMedia(h, s, cfg) ==
  IF h.displayAudio THEN screenTracks(s, cfg) ELSE {<<s, "screenV">>}

\* tracks obtained from getDisplayMedia / getUserMedia
IsSourceTrack(t) == t[2] \in {"screenV", "screenA", "webcamV", "webcamA"}

\* ---------------------------------------------------------- the encoder
\* state, stream and mimeType of a MediaRecorder; whether its closing task is
\* queued; its "stop" listeners; whether its stop event has fired, and the
\* payload of the final dataavailable that preceded it
NoEnc ==
  [state |-> "none", stream |-> NoStream, mime |-> "", stopQueued |-> FALSE,
   listeners |-> <<>>, stopped |-> FALSE, final |-> 0]

EncActive(e) == e.state \in {"recording", "paused"}

\* MediaRecorder.stop(): the recorder becomes inactive at once; the final
\* dataavailable and the stop event are fired by a task queued for later.
encoderStop(w, e) ==
  [w EXCEPT !.enc[e] = [@ EXCEPT !.state = "inactive", !.stopQueued = TRUE]]

EmptyPayload == [enc |-> 0, n |-> 0]
Size(p) == IF p.n = 0 THEN 0 ELSE 1

\* ------------------------------------------------- the application's state
\* script.js:621-682 updateUI: the status line and the buttons follow
\* state.isRecording / state.isPaused as they are when updateUI runs
updateUI(w) ==
  [w EXCEPT !.app = [@ EXCEPT !.uiRec = w.app.isRecording,
                              !.uiPaused = w.app.isPaused]]

\* script.js:757-781
resetRecording(w) ==
  updateUI([w EXCEPT !.app = [@ EXCEPT !.isRecording = FALSE,
                                       !.isPaused = FALSE]])

\* script.js:214-217, the listener of the recorder's "error" event
\* (recorder.js:49-60 emit): showError, then resetRecording
emitError(w) == resetRecording([w EXCEPT !.app.errors = @ + 1])

\* ------------------------------------------------------ the chunk queue
\* a capacity test that is late by one
queueFullLate(q) == Len(q) > maxChunks

\* an eviction that drops the newest chunk
shiftNewest(q) == SubSeq(q, 1, Len(q) - 1)

\* recorder.js:510
queueFull(q) == Len(q) >= maxChunks

\* recorder.js:512 this.chunks.shift()
shift(q) == Tail(q)

\* a handler that enqueues the payload and tells no listener
ondataavailableSilent(w, p) ==
  IF Size(p) > 0
  THEN LET q == IF queueFull(w.chunks) THEN shift(w.chunks) ELSE w.chunks
       IN [w EXCEPT !.chunks = Append(q, p),
                    !.delivered = Append(@, p),
                    !.nPayload = @ + 1]
  ELSE w

\* recorder.js:505-525 ondataavailable, of every encoder this recorder built;
\* the emit of recorder.js:516 runs the listener of script.js:208-212
ondataavailable(w, p) ==
  IF Size(p) > 0
  THEN LET q == IF queueFull(w.chunks) THEN shift(w.chunks) ELSE w.chunks
       IN [w EXCEPT !.chunks = Append(q, p),
                    !.delivered = Append(@, p),
                    !.nPayload = @ + 1,
                    !.emitted = Append(@, p)]
  ELSE w

\* ------------------------------------------------------------- cleanup
StopTracks(w, ts) == [w EXCEPT !.live = @ \ ts]

\* where a start() call that has not settled is suspended
InFlight == {"acqScreen", "acqWebcam", "compose", "rollback"}

\* history: stop() or cleanup() is called, by another caller than start call
\* self, while start() calls are in flight
interrupted(w, self) ==
  [w EXCEPT !.st = [s \in DOMAIN w.st |->
                      IF s # self /\ w.st[s].pc \in InFlight
                      THEN [w.st[s] EXCEPT !.torn = TRUE]
                      ELSE w.st[s]]]

\* recorder.js:664-678: the part of cleanup() after the audio context closed
cleanupTail(w) ==
  LET w1 == IF w.worker # 0
            THEN [w EXCEPT !.wrk[w.worker] = "terminated", !.worker = 0]
            ELSE w
  IN [w1 EXCEPT !.audioContext = 0, !.canvas = 0, !.chunks = <<>>,
                !.delivered = <<>>]

\* recorder.js:618-652: cleanup() up to the audio context
cleanupHead(w) ==
  LET w1 == [w EXCEPT !.isRecording = FALSE]
      w2 == IF w1.mediaRecorder # 0 /\ EncActive(w1.enc[w1.mediaRecorder])
            THEN encoderStop(w1, w1.mediaRecorder)
            ELSE w1
      w3 == [w2 EXCEPT !.mediaRecorder = 0]
      w4 == StopTracks(w3, w3.streams.screen \cup w3.streams.webcam
                             \cup w3.streams.combined)
      w5 == [w4 EXCEPT !.streams = NoStreams]
  IN [StopTracks(w5, w5.canvasStream) EXCEPT !.canvasStream = NoStream]

\* recorder.js:655: cleanup() suspends iff there is an audio context to close
cleanupSuspends(w) == w.audioContext # 0

\* cleanup() called and not awaited (recorder.js:593, 597; script.js:806)
cleanup(w) ==
  LET h == cleanupHead(interrupted(w, 0))
  IN IF cleanupSuspends(h) THEN [h EXCEPT !.closing = @ + 1] ELSE cleanupTail(h)


\* ---------------------------------------------------------------- stop
NoBlob == [data |-> <<>>, type |-> ""]
NoStop ==
  [status |-> "none", enc |-> 0, active |-> FALSE, blob |-> NoBlob,
   shown |-> ""]

\* blob.size: the payloads of the model all have size 0 or 1
BlobSize(b) == Len(b.data)

\* script.js:452-456 and 480-483: what stopRecording() shows once stop() has
\* settled: the save dialog, "no data captured", or "failed to stop"
stopShown(status, blob) ==
  IF status = "rejected" THEN "stopFailed"
  ELSE IF status = "resolved" /\ BlobSize(blob) > 0 THEN "saveDialog"
  ELSE "noData"

\* script.js:450-457 and 480-484: what stopRecording() does once stop() has
\* settled, either way: resetRecording (then the save dialog or an error text)
stopSettled(w) == resetRecording(w)

\* resolve(blob) / reject(error) of the promise of stop call c; a promise
\* settles once
settleStop(w, c, status, blob) ==
  IF w.sp[c].status = "pending"
  THEN stopSettled([w EXCEPT !.sp[c] = [@ EXCEPT
                                          !.status = status,
                                          !.blob = blob,
                                          !.shown = stopShown(status, blob)]])
  ELSE w

\* recorder.js:576-578: new Blob(this.chunks, {type: this.mediaRecorder.mimeType})
\* reads this.mediaRecorder when the handler runs; on null it throws
blobThrows(w) == w.mediaRecorder = 0

newBlob(w) == [data |-> w.chunks, type |-> w.enc[w.mediaRecorder].mime]

\* recorder.js:572-600 handleStop of stop call c
handleStop(w, c) ==
  IF blobThrows(w)
  THEN settleStop(cleanup(w), c, "rejected", NoBlob)
  ELSE settleStop(cleanup(w), c, "resolved", newBlob(w))

\* a stop() that never waits for the encoder
stopNeverWaits(e) == FALSE

\* recorder.js:604-607: does stop() ask the encoder to stop and wait?
stopWaits(e) == e.state = "recording" \/ e.state = "paused"

\* a stop() that tears down when it finds no encoder
stopCleansWithoutEncoder(w, c) ==
  settleStop(cleanup([w EXCEPT !.sp[c] = [NoStop EXCEPT !.status = "pending"]]),
             c, "null", NoBlob)

\* recorder.js:567-570: stop() when this.mediaRecorder is null
stopWithoutEncoder(w, c) ==
  settleStop([interrupted(w, 0) EXCEPT
                !.sp[c] = [NoStop EXCEPT !.status = "pending"]],
             c, "null", NoBlob)

\* recorder.js:565-613 stop(), as stop call c
stop(w, c) ==
  IF w.mediaRecorder = 0
  THEN stopWithoutEncoder(w, c)
  ELSE LET e == w.mediaRecorder
           w1 == [interrupted(w, 0) EXCEPT !.sp[c] = [NoStop EXCEPT
                                        !.status = "pending",
                                        !.enc = e,
                                        !.active = EncActive(w.enc[e])],
                           !.enc[e].listeners = Append(@, c)]
       IN IF stopWaits(w.enc[e]) THEN encoderStop(w1, e) ELSE handleStop(w1, c)

\* the "stop" listeners of an encoder, in the order they were added
RECURSIVE runListeners(_, _)
runListeners(w, ls) ==
  IF ls = <<>> THEN w ELSE runListeners(handleStop(w, Head(ls)), Tail(ls))

\* The encoder's closing task: the final dataavailable with payload p, then
\* the stop event (recorder.js:535-537 onstop only logs), whose once-listeners
\* are removed as they run.
encoderFinish(w, e, p) ==
  LET w1 == ondataavailable(w, p)
      ls == w1.enc[e].listeners
      w2 == [w1 EXCEPT !.enc[e] = [@ EXCEPT !.stopQueued = FALSE,
                                            !.stopped = TRUE,
                                            !.final = p.n,
                                            !.listeners = <<>>]]
  IN runListeners(w2, ls)


\* --------------------------------------------------------------- start
NoCfg == [mode |-> "", audio |-> [mic |-> FALSE, system |-> FALSE]]
\* A start() call: where it is suspended, its configuration, whether its
\* composition promise has resolved, how many canvas compositions it began,
\* and whether stop() or cleanup() was called while it was in flight
NoStart ==
  [pc |-> "none", cfg |-> NoCfg, resolved |-> FALSE, ncv |-> 0, torn |-> FALSE]

\* What the user has selected when asking for a recording: mode, microphone
\* toggle, system-audio toggle (script.js:108-132; the defaults of
\* script.js:12-16 are screen, on, on).
UiSettings ==
  { <<"screen", TRUE, TRUE>>, <<"webcam", TRUE, TRUE>>,
    <<"combined", TRUE, TRUE>> }

\* script.js:490-513 getRecordingConfig
getRecordingConfig(ui) ==
  [mode |-> ui[1],
   audio |-> [mic |-> ui[2], system |-> ui[3] /\ ui[1] # "webcam"]]

\* script.js:519-531 getPreviewStream
getPreviewStream(w) ==
  IF w.app.mode \in {"screen", "webcam", "combined"}
  THEN w.streams[w.app.mode] ELSE NoStream

\* script.js:398-400: startRecording() ends with updateUI
startFinish(w, s) == updateUI([w EXCEPT !.st[s].pc = "done"])

\* script.js:386-396: after the preview plays, the webcam inset of screen mode
afterPreview(w, s) ==
  IF w.app.mode = "screen" /\ w.streams.webcam # NoStream
  THEN [w EXCEPT !.st[s].pc = "pip"]
  ELSE startFinish(w, s)

\* script.js:372-384: recorder.start() resolved
startResolved(w, s) ==
  LET w1 == [w EXCEPT !.app = [@ EXCEPT !.isRecording = TRUE,
                                        !.isPaused = FALSE]]
  IN IF getPreviewStream(w1) # NoStream
     THEN [w1 EXCEPT !.st[s].pc = "preview"]
     ELSE afterPreview(w1, s)

\* script.js:408-412: recorder.start() rejected
startRejected(w, s) == resetRecording([w EXCEPT !.st[s].pc = "failed"])

\* recorder.js:77-80: the catch of start() awaits cleanup(), then throws
startFails(w, s) ==
  LET h == cleanupHead(interrupted(w, s))
  IN IF cleanupSuspends(h)
     THEN [h EXCEPT !.st[s].pc = "rollback"]
     ELSE startRejected(cleanupTail(h), s)

\* recorder.js:451-540 setupRecorder, then recorder.js:72-73
setupRecorder(w, s) ==
  LET stream == w.streams[w.st[s].cfg.mode]
      mime == selectMimeType(w.host.codecs, 1)
  IN IF stream = NoStream \/ mime = ""
     THEN startFails(w, s)
     ELSE startResolved(
            [w EXCEPT !.mediaRecorder = s,
                      !.enc[s] = [NoEnc EXCEPT !.state = "recording",
                                               !.stream = stream,
                                               !.mime = mime],
                      !.chunks = <<>>,
                      !.delivered = <<>>,
                      !.isRecording = TRUE], s)

\* The promise of the composition of start call s resolves: the first
\* resolution lets setupStreams() return, later ones do nothing.
composed(w, s) ==
  IF w.st[s].pc = "compose" /\ ~w.st[s].resolved
  THEN setupRecorder([w EXCEPT !.st[s].resolved = TRUE], s)
  ELSE w

\* recorder.js:353-361 and 414-419: the audio tracks collected from the
\* recorder's current source streams
audioInputs(w, cfg) ==
  (IF cfg.audio.mic /\ w.streams.webcam # NoStream
   THEN getAudioTracks(w.streams.webcam) ELSE {})
  \cup
  (IF cfg.audio.system /\ w.streams.screen # NoStream
   THEN getAudioTracks(w.streams.screen) ELSE {})

\* audioTracks[0] of recorder.js:353-361 and 414-419: the microphone's track
\* is collected before the display's
firstAudioInput(w, cfg) ==
  LET mic == IF cfg.audio.mic /\ w.streams.webcam # NoStream
             THEN getAudioTracks(w.streams.webcam) ELSE {}
  IN IF mic # {} THEN mic ELSE audioInputs(w, cfg)

\* recorder.js:368-379 and 425-435: the audio graph as far as it gets built
\* before it throws, with m the track of its destination
mixGraph(w, s, ins, m) ==
  LET t == w.host.mixThrows
  IN [w EXCEPT !.audioContext = IF t = "context" THEN @ ELSE s,
               !.live = IF t \in {"no", "source"} THEN @ \cup {m} ELSE @,
               !.connected = IF t = "no"
                             THEN @ \cup {<<i, m>> : i \in ins} ELSE @]

\* a mix that connects the first collected input only
combineAudioTracksFirstOnly(w, s, k) ==
  LET cfg == w.st[s].cfg
      m == <<s, "mix" \o k>>
      video == getVideoTracks(w.canvasStream)
  IN IF audioInputs(w, cfg) = {}
     THEN [w EXCEPT !.streams.combined = w.canvasStream]
     ELSE [mixGraph(w, s, firstAudioInput(w, cfg), m)
             EXCEPT !.streams.combined =
                      IF w.host.mixThrows = "no" THEN video \cup {m}
                      ELSE video \cup firstAudioInput(w, cfg)]

\* a mix without the catch of recorder.js:388: the exception leaves the
\* recorder without a combined stream
combineAudioTracksUncaught(w, s, k) ==
  LET cfg == w.st[s].cfg
      ins == audioInputs(w, cfg)
      m == <<s, "mix" \o k>>
      video == getVideoTracks(w.canvasStream)
  IN IF ins = {}
     THEN [w EXCEPT !.streams.combined = w.canvasStream]
     ELSE [mixGraph(w, s, ins, m)
             EXCEPT !.streams.combined =
                      IF w.host.mixThrows = "no" THEN video \cup {m}
                      ELSE NoStream]

\* recorder.js:349-398 combineAudioTracks, for the canvas track of slot k
combineAudioTracks(w, s, k) ==
  LET cfg == w.st[s].cfg
      ins == audioInputs(w, cfg)
      m == <<s, "mix" \o k>>
      video == getVideoTracks(w.canvasStream)
  IN IF ins = {}
     THEN [w EXCEPT !.streams.combined = w.canvasStream]
     ELSE [mixGraph(w, s, ins, m)
             EXCEPT !.streams.combined =
                      IF w.host.mixThrows = "no" THEN video \cup {m}
                      ELSE video \cup firstAudioInput(w, cfg)]

\* recorder.js:266-295 createCombinedStreamCanvas up to its await: the video
\* elements load only if both have a source stream
createCombinedStreamCanvas(w, s) ==
  LET k == IF w.st[s].ncv = 0 THEN "A" ELSE "B"
  IN [w EXCEPT !.canvas = s,
               !.cv = @ \cup {[s |-> s, slot |-> k,
                               loadable |-> /\ w.streams.screen # NoStream
                                            /\ w.streams.webcam # NoStream]},
               !.st[s].ncv = @ + 1]

\* a drawFrame that also returns when no encoder is recording
nothingToDrawOrIdle(w) ==
  \/ w.streams.screen = NoStream /\ w.streams.webcam = NoStream
  \/ w.mediaRecorder = 0
  \/ w.enc[w.mediaRecorder].state # "recording"

\* recorder.js:298-300: drawFrame returns, without scheduling itself again,
\* when the recorder has neither source stream
nothingToDraw(w) ==
  w.streams.screen = NoStream /\ w.streams.webcam = NoStream

\* recorder.js:297-343: createCombinedStreamCanvas after loadedmetadata; the
\* first drawFrame() call is made here (recorder.js:335)
canvasLoaded(w, i) ==
  LET t == <<i.s, "canv" \o i.slot>>
      w1 == [w EXCEPT !.cv = @ \ {i},
                      !.loops = IF nothingToDraw(w)
                                THEN @ ELSE @ \cup {<<i.s, i.slot>>},
                      !.canvasStream = {t},
                      !.live = @ \cup {t}]
  IN composed(combineAudioTracks(w1, i.s, i.slot), i.s)

\* a fallback that leaves the worker running
fallbackKeepsWorker(w, s) == createCombinedStreamCanvas(w, s)

\* a fallback that terminates the worker and composes nothing
fallbackWithoutCanvas(w, s) ==
  IF w.worker # 0
  THEN [w EXCEPT !.wrk[w.worker] = "terminated", !.worker = 0]
  ELSE w

\* recorder.js:251-261
fallbackToCanvas(w, s) ==
  LET w1 == IF w.worker # 0
            THEN [w EXCEPT !.wrk[w.worker] = "terminated", !.worker = 0]
            ELSE w
  IN createCombinedStreamCanvas(w1, s)

\* recorder.js:154-246 createCombinedStreamWebCodecs up to its suspension
createCombinedStreamWebCodecs(w, s) ==
  LET w1 == [w EXCEPT !.worker = s, !.wrk[s] = "created"]
  IN IF w1.streams.screen = NoStream \/ w1.streams.webcam = NoStream
     THEN createCombinedStreamCanvas(w1, s)
     ELSE [w1 EXCEPT !.live = @ \cup {<<s, "gen">>},
                     !.wrk[s] = "init",
                     !.timer[s] = "armed"]

\* a worker error that is reported to the listeners of 'error'
workerErrorReported(w, s) ==
  emitError(fallbackToCanvas([w EXCEPT !.wrk[s] = "failed"], s))

\* recorder.js:185-189 onError, on the worker's "error" message
\* (recorder.js:205-207)
workerError(w, s) == fallbackToCanvas([w EXCEPT !.wrk[s] = "failed"], s)

\* a choice that looks at the webCodecs capability only
createCombinedStreamByWebCodecs(w, s) ==
  LET w1 == [w EXCEPT !.st[s].pc = "compose"]
  IN IF w1.host.webCodecs
     THEN createCombinedStreamWebCodecs(w1, s)
     ELSE createCombinedStreamCanvas(w1, s)

\* recorder.js:142-149
createCombinedStream(w, s) ==
  LET w1 == [w EXCEPT !.st[s].pc = "compose"]
  IN IF w1.host.webCodecs /\ w1.host.offscreenCanvas
     THEN createCombinedStreamWebCodecs(w1, s)
     ELSE createCombinedStreamCanvas(w1, s)

\* recorder.js:406-446 combineAudioWithVideoTrack: the stream it returns, and
\* what building it leaves behind
combineAudioWithVideoTrack(w, s) ==
  LET cfg == w.st[s].cfg
      ins == audioInputs(w, cfg)
      m == <<s, "mixW">>
  IN IF ins = {}
     THEN [w EXCEPT !.streams.combined = {<<s, "gen">>}]
     ELSE [mixGraph(w, s, ins, m)
             EXCEPT !.streams.combined =
                      IF w.host.mixThrows = "no" THEN {<<s, "gen">>, m}
                      ELSE {<<s, "gen">>} \cup firstAudioInput(w, cfg)]

\* recorder.js:191-204: the worker's "ready" message
workerReady(w, s) ==
  composed(combineAudioWithVideoTrack([w EXCEPT !.wrk[s] = "ready"], s), s)


\* ------------------------------------------------------------ the state
Init ==
  /\ mediaRecorder = 0
  /\ chunks = <<>>
  /\ streams = NoStreams
  /\ worker = 0
  /\ canvas = 0
  /\ canvasStream = NoStream
  /\ audioContext = 0
  /\ isRecording = FALSE
  /\ host \in Hosts
  /\ enc = [e \in Starts |-> NoEnc]
  /\ live = {}
  /\ loops = {}
  /\ connected = {}
  /\ wrk = [s \in Starts |-> "none"]
  /\ timer = [s \in Starts |-> "none"]
  /\ st = [s \in Starts |-> NoStart]
  /\ cv = {}
  /\ sp = [c \in Stops |-> NoStop]
  /\ closing = 0
  /\ app = [isRecording |-> FALSE, isPaused |-> FALSE, mode |-> "screen",
            uiRec |-> FALSE, uiPaused |-> FALSE, errors |-> 0]
  /\ delivered = <<>>
  /\ nPayload = 0
  /\ emitted = <<>>
  /\ nFault = 0
  /\ budget \in Budgets
  /\ wk = WkIdle

\* a disruption happens
fault(w) == [w EXCEPT !.nFault = @ + 1]

\* the payloads a flush of encoder e may carry: an empty one, or the next
Payloads(e) ==
  {EmptyPayload} \cup
  (IF nPayload < budget.payloads THEN {[enc |-> e, n |-> nPayload + 1]} ELSE {})

\* ---------------------------------------------------------- user events
\* script.js:135-137 (Start button, enabled as updateUI left it) and
\* script.js:162-165 (Ctrl+R); script.js:362-370 startRecording and
\* recorder.js:65-69, 86-99, 111-127 up to the first acquisition
StartRequest(s, ui) ==
  /\ st[s].pc = "none"
  /\ s <= budget.starts
  /\ \A r \in Starts : r < s => st[r].pc # "none"
  /\ ~app.uiRec \/ ~app.isRecording
  /\ ui[1] = "combined" =>
       Cardinality({r \in Starts : st[r].cfg.mode = "combined"}) < MaxCombined
  /\ LET cfg == getRecordingConfig(ui)
     IN Commit([Cur EXCEPT
          !.app.mode = ui[1],
          !.st[s] = [NoStart EXCEPT
             !.cfg = cfg,
             !.pc = IF cfg.mode = "webcam" THEN "acqWebcam" ELSE "acqScreen"]])

\* a pause that does not look at the encoder's state
pauseAnyState(w) ==
  IF w.mediaRecorder # 0
  THEN [w EXCEPT !.enc[w.mediaRecorder].state = "paused"]
  ELSE w

\* recorder.js:545-550
pause(w) ==
  IF w.mediaRecorder # 0 /\ w.enc[w.mediaRecorder].state = "recording"
  THEN [w EXCEPT !.enc[w.mediaRecorder].state = "paused"]
  ELSE w

\* a resume that does not look at the encoder's state
resumeAnyState(w) ==
  IF w.mediaRecorder # 0
  THEN [w EXCEPT !.enc[w.mediaRecorder].state = "recording"]
  ELSE w

\* recorder.js:555-560
resume(w) ==
  IF w.mediaRecorder # 0 /\ w.enc[w.mediaRecorder].state = "paused"
  THEN [w EXCEPT !.enc[w.mediaRecorder].state = "recording"]
  ELSE w

\* script.js:138-140, 170-173 and 418-427 pauseRecording
PauseRequest ==
  /\ (app.uiRec /\ ~app.uiPaused) \/ (app.isRecording /\ ~app.isPaused)
  /\ Commit(updateUI([pause(Cur) EXCEPT !.app.isPaused = TRUE]))

\* script.js:141-143, 174-175 and 432-441 resumeRecording
ResumeRequest ==
  /\ app.uiPaused \/ (~(app.isRecording /\ ~app.isPaused) /\ app.isPaused)
  /\ Commit(updateUI([resume(Cur) EXCEPT !.app.isPaused = FALSE]))

\* script.js:144, 166-169 and 446-450 stopRecording
StopRequest(c) ==
  /\ sp[c].status = "none"
  /\ c <= budget.stops
  /\ \A d \in Stops : d < c => sp[d].status # "none"
  /\ app.uiRec \/ app.isRecording
  /\ Commit(stop(Cur, c))

\* script.js:51 and 804-811: the page-unload hook
Unload ==
  /\ nFault < MaxFaults
  /\ Commit(cleanup(resetRecording(fault(Cur))))

\* ------------------------------------------------------ start, resumed
\* recorder.js:92-108: getDisplayMedia resolved
ScreenAcquired(s) ==
  /\ st[s].pc = "acqScreen"
  /\ LET ts == getDisplayMedia(host, s, st[s].cfg)
         w == [Cur EXCEPT !.streams.screen = ts, !.live = @ \cup ts]
     IN Commit(IF st[s].cfg.mode = "combined"
               THEN [w EXCEPT !.st[s].pc = "acqWebcam"]
               ELSE setupRecorder(w, s))

\* recorder.js:125-133: getUserMedia resolved
WebcamAcquired(s) ==
  /\ st[s].pc = "acqWebcam"
  /\ LET ts == webcamTracks(s, st[s].cfg)
         w == [Cur EXCEPT !.streams.webcam = ts, !.live = @ \cup ts]
     IN Commit(IF st[s].cfg.mode = "combined"
               THEN createCombinedStream(w, s)
               ELSE setupRecorder(w, s))

\* recorder.js:134-136: getDisplayMedia or getUserMedia rejected
AcquireFailed(s) ==
  /\ st[s].pc \in {"acqScreen", "acqWebcam"}
  /\ nFault < MaxFaults
  /\ Commit(startFails(fault(Cur), s))

\* recorder.js:286-295: both video elements have their metadata
CanvasLoaded(i) ==
  /\ i \in cv
  /\ i.loadable
  /\ Commit(canvasLoaded(Cur, i))

\* recorder.js:298-300: the next animation frame after the source streams
\* were dropped; every scheduled drawFrame returns
Frame ==
  /\ loops # {}
  /\ nothingToDraw(Cur)
  /\ Commit([Cur EXCEPT !.loops = {}])

\* compositor.worker.js:40 "ready", handled by recorder.js:191-204
WorkerReady(s) ==
  /\ wrk[s] = "init"
  /\ Commit(workerReady(Cur, s))

\* compositor.worker.js:43, 46 "error", handled by recorder.js:185-189, 205
WorkerError(s) ==
  /\ wrk[s] \in {"init", "ready"}
  /\ nFault < MaxFaults
  /\ Commit(workerError(fault(Cur), s))

\* recorder.js:231-235: the readiness timer fires
Timeout(s) ==
  /\ timer[s] = "armed"
  /\ LET w == [Cur EXCEPT !.timer[s] = "fired"]
     IN Commit(IF w.streams.combined = NoStream
               THEN fallbackToCanvas(w, s) ELSE w)

\* script.js:382: previewVideo.play() settled
PreviewPlayed(s) ==
  /\ st[s].pc = "preview"
  /\ Commit(afterPreview(Cur, s))

\* script.js:393: pipVideo.play() settled
PipPlayed(s) ==
  /\ st[s].pc = "pip"
  /\ Commit(startFinish(Cur, s))

\* recorder.js:657-678 for the cleanup() awaited by the catch of start()
RollbackResumed(s) ==
  /\ st[s].pc = "rollback"
  /\ Commit(startRejected(cleanupTail(Cur), s))

\* recorder.js:657-678 for a cleanup() nobody awaits
CleanupResumed ==
  /\ closing > 0
  /\ Commit(cleanupTail([Cur EXCEPT !.closing = @ - 1]))

\* ------------------------------------------------------ platform events
\* the encoder's 1 s timeslice (recorder.js:72) elapses
Flush(e) ==
  /\ enc[e].state = "recording"
  /\ \E p \in Payloads(e) : Commit(ondataavailable(Cur, p))

\* the task queued by MediaRecorder.stop()
EncoderStopTask(e) ==
  /\ enc[e].stopQueued
  /\ \E p \in Payloads(e) : Commit(encoderFinish(Cur, e, p))

\* every track of the encoder's stream has ended: it stops by itself
EncoderTracksEnded(e) ==
  /\ EncActive(enc[e])
  /\ enc[e].stream \cap live = {}
  /\ \E p \in Payloads(e) :
       Commit(encoderFinish([Cur EXCEPT !.enc[e].state = "inactive"], e, p))

\* an error handler that also empties the queue
encoderErrorDropsChunks(w, e, p) ==
  encoderFinish(emitError([w EXCEPT !.enc[e].state = "inactive",
                                    !.chunks = <<>>]), e, p)

\* the encoder fails: its error event runs recorder.js:527-533 onerror, which
\* emits 'error'; then the encoder stops by itself, with a final payload p
encoderError(w, e, p) ==
  encoderFinish(emitError([w EXCEPT !.enc[e].state = "inactive"]), e, p)

EncoderError(e) ==
  /\ EncActive(enc[e])
  /\ nFault < MaxFaults
  /\ \E p \in Payloads(e) : Commit(encoderError(fault(Cur), e, p))

\* the user ends the screen share: recorder.js:101-107
ScreenEnded(s) ==
  /\ <<s, "screenV">> \in live
  /\ nFault < MaxFaults
  /\ Commit(emitError([fault(Cur) EXCEPT
                        !.live = @ \ screenTracks(s, st[s].cfg)]))

Next ==
  \/ \E s \in Starts, ui \in UiSettings : StartRequest(s, ui)
  \/ PauseRequest
  \/ ResumeRequest
  \/ \E c \in Stops : StopRequest(c)
  \/ Unload
  \/ \E s \in Starts : ScreenAcquired(s)
  \/ \E s \in Starts : WebcamAcquired(s)
  \/ \E s \in Starts : AcquireFailed(s)
  \/ \E i \in cv : CanvasLoaded(i)
  \/ Frame
  \/ \E s \in Starts : WorkerReady(s)
  \/ \E s \in Starts : WorkerError(s)
  \/ \E s \in Starts : Timeout(s)
  \/ \E s \in Starts : PreviewPlayed(s)
  \/ \E s \in Starts : PipPlayed(s)
  \/ \E s \in Starts : RollbackResumed(s)
  \/ CleanupResumed
  \/ \E e \in Starts : Flush(e)
  \/ \E e \in Starts : EncoderStopTask(e)
  \/ \E e \in Starts : EncoderTracksEnded(e)
  \/ \E e \in Starts : EncoderError(e)
  \/ \E s \in Starts : ScreenEnded(s)

Spec == Init /\ [][Next]_vars

\* Codec negotiation on its own: one start call on a host that supports any
\* subset of the preference list, followed until it records or is rejected.
CodecHosts ==
  { [webCodecs |-> a, offscreenCanvas |-> a, codecs |-> c,
     displayAudio |-> TRUE, mixThrows |-> "no"] :
       a \in BOOLEAN, c \in SUBSET AllCodecs }

CodecInit ==
  /\ mediaRecorder = 0
  /\ chunks = <<>>
  /\ streams = NoStreams
  /\ worker = 0
  /\ canvas = 0
  /\ canvasStream = NoStream
  /\ audioContext = 0
  /\ isRecording = FALSE
  /\ host \in CodecHosts
  /\ enc = [e \in Starts |-> NoEnc]
  /\ live = {}
  /\ loops = {}
  /\ connected = {}
  /\ wrk = [s \in Starts |-> "none"]
  /\ timer = [s \in Starts |-> "none"]
  /\ st = [s \in Starts |-> NoStart]
  /\ cv = {}
  /\ sp = [c \in Stops |-> NoStop]
  /\ closing = 0
  /\ app = [isRecording |-> FALSE, isPaused |-> FALSE, mode |-> "screen",
            uiRec |-> FALSE, uiPaused |-> FALSE, errors |-> 0]
  /\ delivered = <<>>
  /\ nPayload = 0
  /\ emitted = <<>>
  /\ nFault = 0
  /\ budget = [starts |-> 1, stops |-> MaxStops, payloads |-> MaxPayloads]
  /\ wk = WkIdle

CodecNext ==
  \/ \E s \in Starts, ui \in UiSettings : StartRequest(s, ui)
  \/ \E s \in Starts : ScreenAcquired(s)
  \/ \E s \in Starts : WebcamAcquired(s)
  \/ \E i \in cv : CanvasLoaded(i)
  \/ \E s \in Starts : WorkerReady(s)
  \/ \E s \in Starts : RollbackResumed(s)
  \/ \E e \in Starts : Flush(e)

SpecCodec == CodecInit /\ [][CodecNext]_vars

\* Composition on its own: one start call, with every setting of the mode and
\* the two audio toggles, on a host with any combination of the two
\* capabilities, with or without shared display audio, whose audio graph
\* builds or throws; the worker may fail and the readiness timer may fire.
AllUiSettings ==
  { <<m, mic, sys>> : m \in {"screen", "webcam", "combined"},
                      mic \in BOOLEAN, sys \in BOOLEAN }

ComposeHosts ==
  { [webCodecs |-> a, offscreenCanvas |-> b, codecs |-> AllCodecs,
     displayAudio |-> d, mixThrows |-> t] :
       a \in BOOLEAN, b \in BOOLEAN, d \in BOOLEAN, t \in MixThrows }

ComposeInit ==
  /\ mediaRecorder = 0
  /\ chunks = <<>>
  /\ streams = NoStreams
  /\ worker = 0
  /\ canvas = 0
  /\ canvasStream = NoStream
  /\ audioContext = 0
  /\ isRecording = FALSE
  /\ host \in ComposeHosts
  /\ enc = [e \in Starts |-> NoEnc]
  /\ live = {}
  /\ loops = {}
  /\ connected = {}
  /\ wrk = [s \in Starts |-> "none"]
  /\ timer = [s \in Starts |-> "none"]
  /\ st = [s \in Starts |-> NoStart]
  /\ cv = {}
  /\ sp = [c \in Stops |-> NoStop]
  /\ closing = 0
  /\ app = [isRecording |-> FALSE, isPaused |-> FALSE, mode |-> "screen",
            uiRec |-> FALSE, uiPaused |-> FALSE, errors |-> 0]
  /\ delivered = <<>>
  /\ nPayload = 0
  /\ emitted = <<>>
  /\ nFault = 0
  /\ budget = [starts |-> 1, stops |-> MaxStops, payloads |-> FewPayloads]
  /\ wk = WkIdle

ComposeNext ==
  \/ \E s \in Starts, ui \in AllUiSettings : StartRequest(s, ui)
  \/ \E s \in Starts : ScreenAcquired(s)
  \/ \E s \in Starts : WebcamAcquired(s)
  \/ \E i \in cv : CanvasLoaded(i)
  \/ \E s \in Starts : WorkerReady(s)
  \/ \E s \in Starts : WorkerError(s)
  \/ \E s \in Starts : Timeout(s)
  \/ \E e \in Starts : Flush(e)

SpecCompose == ComposeInit /\ [][ComposeNext]_vars

\* Sessions one after the other: the user asks for a recording only when
\* every earlier one was stopped, its encoder has fired its stop event, a
\* stop() of it has resolved and no stop() is pending; nothing fails.
SequentialStart(s, ui) ==
  /\ \A r \in Starts :
       r < s => /\ enc[r].stopped
                /\ \E c \in Stops : sp[c].enc = r /\ sp[c].status = "resolved"
  /\ \A c \in Stops : sp[c].status # "pending"
  /\ StartRequest(s, ui)

SessionsInit ==
  /\ mediaRecorder = 0
  /\ chunks = <<>>
  /\ streams = NoStreams
  /\ worker = 0
  /\ canvas = 0
  /\ canvasStream = NoStream
  /\ audioContext = 0
  /\ isRecording = FALSE
  /\ host \in {h \in Hosts : h.codecs # {}}
  /\ enc = [e \in Starts |-> NoEnc]
  /\ live = {}
  /\ loops = {}
  /\ connected = {}
  /\ wrk = [s \in Starts |-> "none"]
  /\ timer = [s \in Starts |-> "none"]
  /\ st = [s \in Starts |-> NoStart]
  /\ cv = {}
  /\ sp = [c \in Stops |-> NoStop]
  /\ closing = 0
  /\ app = [isRecording |-> FALSE, isPaused |-> FALSE, mode |-> "screen",
            uiRec |-> FALSE, uiPaused |-> FALSE, errors |-> 0]
  /\ delivered = <<>>
  /\ nPayload = 0
  /\ emitted = <<>>
  /\ nFault = 0
  /\ budget = [starts |-> MaxStarts, stops |-> MaxStops,
               payloads |-> MaxPayloads]
  /\ wk = WkIdle

SessionsNext ==
  \/ \E s \in Starts, ui \in UiSettings : SequentialStart(s, ui)
  \/ \E c \in Stops : StopRequest(c)
  \/ \E s \in Starts : ScreenAcquired(s)
  \/ \E s \in Starts : WebcamAcquired(s)
  \/ \E i \in cv : CanvasLoaded(i)
  \/ Frame
  \/ \E s \in Starts : WorkerReady(s)
  \/ \E s \in Starts : Timeout(s)
  \/ \E s \in Starts : PreviewPlayed(s)
  \/ CleanupResumed
  \/ \E e \in Starts : Flush(e)
  \/ \E e \in Starts : EncoderStopTask(e)

SpecSessions == SessionsInit /\ [][SessionsNext]_vars

\* ------------------------------------------------- the compositor worker
\* The worker on its own, fed by two readers that deliver up to MaxFrames
\* frames each and may report end-of-stream at any read.  A step is one task
\* of the worker's event loop with the microtasks it triggers.

\* frame.close() of the frame held in a variable (null: nothing to close)
closeFrame(k, origin, n) ==
  IF n = 0 THEN k ELSE [k EXCEPT !.open = @ \ {<<origin, n>>}]

\* compositor.worker.js:142-146 closeWriter
closeWriter(k) ==
  IF k.writer = "open" THEN [k EXCEPT !.writer = "closed"] ELSE k

\* compositor.worker.js:136-139: after the loop
loopCleanup(k) ==
  LET k1 == closeFrame(k, "screen", k.screenFrame)
      k2 == closeFrame(k1, "webcam", k.webcamFrame)
  IN [closeWriter(k2) EXCEPT !.pc = "done"]

\* compositor.worker.js:42-44: composeLoop rejected, the error is posted
loopThrows(k) == [k EXCEPT !.pc = "failed", !.posted = Append(@, "error")]

\* compositor.worker.js:74-80: the loop condition, then the wait for the
\* next frame time
loopTop(k) ==
  IF k.isRunning THEN [k EXCEPT !.pc = "wait"] ELSE loopCleanup(k)

\* compositor.worker.js:83-86: both reads are issued
issueReads(k) == [k EXCEPT !.pc = "reading", !.s = NoRead, !.w = NoRead]

\* a loop that ends only when both readers are done
bothDone(k) == k.s.done /\ k.w.done

\* compositor.worker.js:87
eitherDone(k) == k.s.done \/ k.w.done

\* compositor.worker.js:116-130: the composed frame is created and handed
\* to the writer; writing to a writer that is not open rejects
composeAndWrite(k) ==
  LET k1 == [k EXCEPT !.nComposed = @ + 1,
                      !.open = @ \cup {<<"composed", k.nComposed + 1>>}]
  IN IF k1.writer = "open"
     THEN [k1 EXCEPT !.pc = "writing"]
     ELSE loopThrows(k1)

\* compositor.worker.js:87-115: Promise.all resolved; up to the first await
\* that suspends: draw() of the screen frame through createImageBitmap where
\* drawImage does not take a VideoFrame (61-70), else writer.write
iterate(k) ==
  IF eitherDone(k)
  THEN loopCleanup(k)
  ELSE LET k1 == closeFrame(k, "screen", k.screenFrame)
           k2 == closeFrame(k1, "webcam", k.webcamFrame)
           k3 == [k2 EXCEPT !.screenFrame = k.s.value,
                            !.webcamFrame = k.w.value]
       IN IF k3.direct
          THEN composeAndWrite(k3)
          ELSE [k3 EXCEPT !.pc = "drawScreen"]

\* one reader.read() settles; the loop goes on once both have
readSettled(k) ==
  IF k.s.settled /\ k.w.settled THEN iterate(k) ELSE k

\* compositor.worker.js:23-49: the "init" message
WkInit ==
  /\ wk.pc = "idle"
  /\ \/ \E d \in BOOLEAN :
          wk' = issueReads([wk EXCEPT !.writer = "open",
                                      !.direct = d,
                                      !.isRunning = TRUE,
                                      !.posted = Append(@, "ready")])
     \/ wk' = [wk EXCEPT !.pc = "failed", !.posted = Append(@, "error")]
  /\ UNCHANGED mainVars

\* screenReader.read() settles: the next frame, or end-of-stream
WkScreenRead ==
  /\ wk.pc = "reading"
  /\ ~wk.s.settled
  /\ \/ /\ wk.nScreen < MaxFrames
        /\ wk' = readSettled(
                   [wk EXCEPT !.nScreen = @ + 1,
                              !.open = @ \cup {<<"screen", wk.nScreen + 1>>},
                              !.s = [settled |-> TRUE, done |-> FALSE,
                                     value |-> wk.nScreen + 1]])
     \/ wk' = readSettled(
                [wk EXCEPT !.s = [settled |-> TRUE, done |-> TRUE,
                                  value |-> 0]])
  /\ UNCHANGED mainVars

\* webcamReader.read() settles: the next frame, or end-of-stream
WkWebcamRead ==
  /\ wk.pc = "reading"
  /\ ~wk.w.settled
  /\ \/ /\ wk.nWebcam < MaxFrames
        /\ wk' = readSettled(
                   [wk EXCEPT !.nWebcam = @ + 1,
                              !.open = @ \cup {<<"webcam", wk.nWebcam + 1>>},
                              !.w = [settled |-> TRUE, done |-> FALSE,
                                     value |-> wk.nWebcam + 1]])
     \/ wk' = readSettled(
                [wk EXCEPT !.w = [settled |-> TRUE, done |-> TRUE,
                                  value |-> 0]])
  /\ UNCHANGED mainVars

\* compositor.worker.js:66-68: createImageBitmap resolved; the bitmap is
\* drawn and closed, and the loop goes on to the next draw or to the write
WkBitmap ==
  /\ wk.pc \in {"drawScreen", "drawWebcam"}
  /\ wk' = IF wk.pc = "drawScreen"
           THEN [wk EXCEPT !.pc = "drawWebcam"]
           ELSE composeAndWrite(wk)
  /\ UNCHANGED mainVars

\* compositor.worker.js:66: createImageBitmap rejected
WkBitmapFails ==
  /\ wk.pc \in {"drawScreen", "drawWebcam"}
  /\ wk' = loopThrows(wk)
  /\ UNCHANGED mainVars

\* compositor.worker.js:130-133: writer.write resolved
WkWriteDone ==
  /\ wk.pc = "writing"
  /\ wk' = loopTop([wk EXCEPT !.open = @ \ {<<"composed", wk.nComposed>>},
                              !.written = @ + 1])
  /\ UNCHANGED mainVars

\* compositor.worker.js:130: writer.write rejected (the sink failed)
WkWriteFails ==
  /\ wk.pc = "writing"
  /\ wk' = loopThrows([wk EXCEPT !.writer = "errored"])
  /\ UNCHANGED mainVars

\* compositor.worker.js:77-80: the 1 ms wait is over and the frame time has
\* come
WkTimer ==
  /\ wk.pc = "wait"
  /\ wk' = IF wk.isRunning THEN issueReads(wk) ELSE loopCleanup(wk)
  /\ UNCHANGED mainVars

\* compositor.worker.js:51-53 and 148-151: the "stop" message
WkStop ==
  /\ wk.pc \in {"reading", "drawScreen", "drawWebcam", "writing", "wait"}
  /\ wk.isRunning
  /\ wk' = closeWriter([wk EXCEPT !.isRunning = FALSE])
  /\ UNCHANGED mainVars

WorkerInit ==
  /\ CodecInit
  /\ host.webCodecs /\ host.offscreenCanvas
  /\ host.codecs = AllCodecs

WorkerNext ==
  \/ WkInit
  \/ WkScreenRead
  \/ WkWebcamRead
  \/ WkBitmap
  \/ WkBitmapFails
  \/ WkWriteDone
  \/ WkWriteFails
  \/ WkTimer
  \/ WkStop

SpecWorker == WorkerInit /\ [][WorkerNext]_vars

\* ================================================================ claims
Min(a, b) == IF a < b THEN a ELSE b

\* the source tracks start call s acquired that are still live
LiveSourceTracks(s) == {t \in live : t[1] = s /\ IsSourceTrack(t)}

\* C1: in every reachable state, whatever the interleaving of start, pause,
\* resume, stop, cleanup and the encoders' flushes, the chunk queue holds at
\* most maxChunks chunks.
C1_QueueBounded == Len(chunks) <= maxChunks

\* C1, its case: the queue is full and more payloads than it can hold have
\* been delivered since it was last emptied
C1_QueueFullAfterEviction ==
  Len(chunks) = maxChunks /\ Len(delivered) > maxChunks

\* C2: after N non-empty payloads have been delivered since the queue was last
\* emptied, the queue holds exactly the last min(N, maxChunks) of them, in the
\* order of delivery: nothing is reordered, duplicated or dropped but the
\* oldest.
C2_QueueHoldsLatest ==
  LET n == Len(delivered)
      k == Min(n, maxChunks)
  IN /\ chunks = SubSeq(delivered, n - k + 1, n)
     /\ \A i, j \in 1..Len(chunks) : i < j => chunks[i].n < chunks[j].n

\* C2, its case: a payload was delivered to a full queue, whose oldest chunk
\* is gone
C2_OldestEvicted ==
  /\ Len(delivered) = maxChunks + 1
  /\ Len(chunks) = maxChunks
  /\ chunks[1] = delivered[2]

\* the queue once the encoder's closing task has delivered its final payload,
\* read off a step that runs the task
QueueAtStop ==
  IF nPayload' > nPayload
  THEN Append(IF Len(chunks) >= maxChunks THEN Tail(chunks) ELSE chunks,
              [enc |-> CHOOSE e \in Starts : enc'[e].final = nPayload',
               n |-> nPayload'])
  ELSE chunks

\* C3: a stop() called on a Recording or Paused encoder asks the encoder to
\* stop, stays pending until that encoder's stop event, and when it resolves
\* it is in the step of that event, with an artifact that is the queue as it
\* is then, final payload included, in order, typed with the negotiated MIME
\* type.
C3_StopStep ==
  \A c \in Stops :
    /\ (sp'[c].status = "pending" /\ sp'[c].active)
         => /\ ~EncActive(enc'[sp'[c].enc])
            /\ enc'[sp'[c].enc].stopQueued
            /\ ~enc'[sp'[c].enc].stopped
    /\ (sp'[c].status = "resolved" /\ sp'[c].active /\ sp[c].status # "resolved")
         => /\ sp[c].status = "pending"
            /\ ~enc[sp[c].enc].stopped
            /\ enc'[sp[c].enc].stopped
            /\ sp'[c].blob.data = QueueAtStop
            /\ sp'[c].blob.type = selectMimeType(host.codecs, 1)
            /\ sp'[c].blob.type # ""

C3_StopResolvesAfterEncoderStop == [][C3_StopStep]_vars

\* C3, its case: a stop() called on an active encoder has resolved with an
\* artifact that fills the queue and whose last chunk is the final payload
C3_StoppedWithFinalChunk ==
  \E c \in Stops :
    /\ sp[c].status = "resolved"
    /\ sp[c].active
    /\ Len(sp[c].blob.data) = maxChunks
    /\ sp[c].blob.data[maxChunks].n = enc[sp[c].enc].final
    /\ Len(delivered) = 0

\* nothing is held by the recorder
Released ==
  /\ mediaRecorder = 0
  /\ streams = NoStreams
  /\ worker = 0
  /\ canvas = 0
  /\ canvasStream = NoStream
  /\ audioContext = 0
  /\ chunks = <<>>
  /\ ~isRecording

\* C4: once a stop() has resolved with its artifact, or a suspended cleanup()
\* has run to its end, the recorder holds no stream, encoder, worker, canvas,
\* canvas stream or audio context, its queue is empty and isRecording is false.
C4_TeardownStep ==
  (\/ \E c \in Stops : sp[c].status = "pending" /\ sp'[c].status = "resolved"
   \/ closing' < closing)
    => Released'

C4_TeardownReleasesAll == [][C4_TeardownStep]_vars

\* a cleanup() run to its end
cleanupAll(w) == cleanupTail(cleanupHead(w))

\* C5: a second cleanup() right after a completed one changes nothing and
\* stops no live track, and after it no acquired track is live.
C5_CleanupIdempotent ==
  LET once == cleanupAll(Cur)
      twice == cleanupAll(once)
  IN /\ twice = once
     /\ twice.live = once.live
     /\ {t \in twice.live : IsSourceTrack(t)} = {}

\* C6: when a start() rejects, every track that start acquired is stopped, its
\* worker is terminated, the recorder holds no stream and no encoder,
\* isRecording is false and the controller is idle.
C6_RejectStep ==
  \A s \in Starts :
    (st[s].pc # "failed" /\ st'[s].pc = "failed")
      => /\ \A t \in live' : ~(t[1] = s /\ IsSourceTrack(t))
         /\ wrk'[s] \in {"none", "terminated"}
         /\ streams' = NoStreams
         /\ mediaRecorder' = 0
         /\ ~isRecording'
         /\ ~app'.isRecording

C6_FailedStartRollsBack == [][C6_RejectStep]_vars

\* C7: at most one encoder is Recording or Paused, and the live source tracks
\* belong to at most one start() call.
C7_OneActiveSession ==
  /\ Cardinality({e \in Starts : EncActive(enc[e])}) <= 1
  /\ Cardinality({s \in Starts : LiveSourceTracks(s) # {}}) <= 1

\* no stop() and no cleanup() is still running
TeardownsSettled ==
  /\ closing = 0
  /\ \A c \in Stops : sp[c].status # "pending"
  /\ \A s \in Starts : st[s].pc # "rollback"

\* C8: when stop() or cleanup() was called while a start() was in flight, then
\* once both have settled no track of that start is live, its encoder is not
\* recording and the recorder does not hold it.
C8_InterruptedStartIsCancelled ==
  \A s \in Starts :
    (st[s].torn /\ st[s].pc \notin InFlight /\ TeardownsSettled)
      => /\ \A t \in live : t[1] # s
         /\ ~EncActive(enc[s])
         /\ mediaRecorder # s

\* nothing is pending: no start() in flight, no canvas waiting for its
\* metadata, no worker about to answer, no timer armed, no encoder closing or
\* left without a live track, no teardown unsettled
NothingPending ==
  /\ \A s \in Starts :
       /\ st[s].pc \in {"none", "done", "failed"}
       /\ wrk[s] # "init"
       /\ timer[s] # "armed"
       /\ ~enc[s].stopQueued
       /\ EncActive(enc[s]) => enc[s].stream \cap live # {}
  /\ \A i \in cv : ~i.loadable
  /\ TeardownsSettled

\* C9: in a run of one session whose start() no teardown interrupted, once
\* the session is torn down (the recorder holds nothing and nothing is
\* pending) none of its tracks is live, whether acquired (screen, webcam) or
\* derived (canvas, generator, mixed audio).
C9_TeardownStopsEveryTrack ==
  (/\ budget.starts = 1
   /\ \A s \in Starts : ~st[s].torn
   /\ Released
   /\ NothingPending) => live = {}

\* C10: in a run of one session, once an error was surfaced and nothing is
\* pending any more, exactly one error was surfaced, the encoder is not
\* recording, no acquired track is live and the controller is idle.
C10_ErrorTearsDown ==
  (budget.starts = 1 /\ app.errors > 0 /\ NothingPending)
    => /\ app.errors = 1
       /\ \A s \in Starts : ~EncActive(enc[s])
       /\ \A s \in Starts : LiveSourceTracks(s) = {}
       /\ ~app.isRecording

\* start call s is the only combined-mode start of the run so far
OnlyCombined(s) == \A r \in Starts \ {s} : st[r].cfg.mode # "combined"

\* a canvas composition of start call s gets its metadata in this step
CanvasLoadsFor(s) == \E i \in cv : i.s = s /\ i \notin cv'

\* C11: in a combined-mode start on the accelerated path, when the 5 s timer
\* fires and the worker has not signalled readiness, the worker is terminated
\* and a canvas composition is begun for the same start and configuration;
\* and when that composition loads on a host with a codec, the start reaches
\* Recording on a non-null combined stream.
C11_TimeoutStep ==
  \A s \in Starts :
    OnlyCombined(s) =>
      /\ (timer[s] = "armed" /\ timer'[s] = "fired" /\ wrk[s] = "init")
           => /\ wrk'[s] = "terminated"
              /\ worker' = 0
              /\ canvas' = s
              /\ \E i \in cv' \ cv : i.s = s
              /\ st'[s].cfg = st[s].cfg
      /\ (timer[s] = "fired" /\ CanvasLoadsFor(s) /\ st[s].pc = "compose"
            /\ ~st[s].resolved /\ host.codecs # {})
           => /\ enc'[s].state = "recording"
              /\ streams'.combined # NoStream
              /\ enc'[s].stream = streams'.combined
              /\ mediaRecorder' = s
              /\ st'[s].pc \in {"preview", "pip", "done"}

C12_WorkerErrorFallsBackToCanvas ==
  \A s \in Starts :
    (OnlyCombined(s) /\ wrk[s] \in {"init", "ready"})
      => LET w == workerError(Cur, s)
         IN /\ w.wrk[s] = "terminated"
            /\ w.worker = 0
            /\ w.canvas = s
            /\ \E i \in w.cv \ cv : i.s = s
            /\ w.st[s].ncv = st[s].ncv + 1
            /\ w.st[s].cfg = st[s].cfg

\* C12, its case: the worker failed while its start was recording; it is
\* terminated and a canvas composition of that start is under way
C12_WorkerFailedWhileRecording ==
  \E s \in Starts :
    /\ nFault = 1
    /\ timer[s] = "armed"
    /\ wrk[s] = "terminated"
    /\ worker = 0
    /\ enc[s].state = "recording"
    /\ <<s, "gen">> \in enc[s].stream
    /\ \E i \in cv : i.s = s /\ i.loadable

\* the accelerated path of start call s fails in this step: on a host with
\* the accelerated path a canvas composition is begun only by the worker's
\* error message, the readiness timer or the catch of the setup
AccelFails(s) ==
  /\ host.webCodecs /\ host.offscreenCanvas
  /\ st'[s].ncv = st[s].ncv + 1

\* C13: a step in which the accelerated path fails emits no 'error' event
\* and does not make start() reject; a start that is composing rejects only
\* after its composition has resolved, for want of a codec.
C13_AccelFailureStep ==
  \A s \in Starts :
    /\ AccelFails(s)
         => /\ app'.errors = app.errors
            /\ st'[s].pc \in {"rollback", "failed"} => st'[s].pc = st[s].pc
    /\ (st[s].pc = "compose" /\ st'[s].pc \in {"rollback", "failed"})
         => /\ ~st[s].resolved /\ st'[s].resolved
            /\ host.codecs = {}

Producers ==
  {<<s, "worker">> : s \in {r \in Starts : wrk[r] = "ready"}} \cup loops

\* C14: in a run with a single start call at most one compositing producer
\* runs at any time: never a worker together with a canvas redraw loop, never
\* two redraw loops.
C14_OneProducer ==
  budget.starts = 1 => Cardinality(Producers) <= 1

\* start call s resolves in this step: its encoder is constructed and started
StartResolves(s) == enc[s].state = "none" /\ enc'[s].state = "recording"

\* C15: when start() resolves the recorder holds a combined stream exactly
\* in combined mode, the encoder wraps the stream of the mode (the combined
\* stream, or the raw screen or webcam stream), and a start in screen or
\* webcam mode has created no worker and no canvas.
C15_ResolveStep ==
  \A s \in Starts :
    StartResolves(s) =>
      LET mode == st[s].cfg.mode
      IN /\ (streams'.combined # NoStream) <=> (mode = "combined")
         /\ enc'[s].stream = streams'[mode]
         /\ enc'[s].stream # NoStream
         /\ mode = "screen" => enc'[s].stream = screenTracks(s, st[s].cfg)
         /\ mode = "webcam" => enc'[s].stream = webcamTracks(s, st[s].cfg)
         /\ mode # "combined"
              => /\ wrk'[s] = "none"
                 /\ timer'[s] = "none"
                 /\ st'[s].ncv = 0
                 /\ \A t \in live' : t[1] = s => IsSourceTrack(t)

C15_StreamMatchesMode == [][C15_ResolveStep]_vars

\* C16: every non-empty payload an encoder hands over is enqueued and
\* announced by exactly one 'dataavailable' event carrying that payload, so
\* with its size; an empty payload changes nothing; after k non-empty
\* payloads exactly k events have been emitted, each of size above zero.
C16_OneEventPerPayload ==
  /\ Len(emitted) = nPayload
  /\ \A k \in 1..Len(emitted) : emitted[k].n = k /\ Size(emitted[k]) > 0
  /\ ondataavailable(Cur, EmptyPayload) = Cur
  /\ \A e \in Starts : \A p \in Payloads(e) \ {EmptyPayload} :
       LET w == ondataavailable(Cur, p)
       IN /\ w.chunks[Len(w.chunks)] = p
          /\ w.emitted = Append(emitted, p)
          /\ Size(w.emitted[Len(w.emitted)]) = Size(p)

\* C16, its case: three non-empty payloads were flushed, with empty ones
\* possible in between, and three events were emitted
C16_ThreeEvents ==
  /\ nPayload = 3
  /\ Len(emitted) = 3
  /\ Len(chunks) = maxChunks

\* encoder e has handed over no non-empty payload
NoPayloadOf(e) == \A k \in 1..Len(emitted) : emitted[k].enc # e

\* C17: in a run of one start call without disruption, every stop() on an
\* encoder that never delivered a non-empty payload resolves, with an
\* artifact of size 0, and the controller shows "no data captured".
C17_EmptyStopResolves ==
  \A c \in Stops :
    (/\ budget.starts = 1
     /\ nFault = 0
     /\ sp[c].status \in {"resolved", "rejected"}
     /\ sp[c].enc # 0
     /\ NoPayloadOf(sp[c].enc))
      => /\ sp[c].status = "resolved"
         /\ BlobSize(sp[c].blob) = 0
         /\ sp[c].blob.type = enc[sp[c].enc].mime
         /\ sp[c].shown = "noData"

\* C18: on a host that supports none of the MIME types no start() succeeds
\* and no encoder is ever built; in the step in which a start() rejects for
\* want of a codec (no acquisition was refused, nothing else disturbed the
\* run) no source track that start acquired is live any more and the recorder
\* is not recording.
C18_NoCodecStep ==
  host.codecs = {} =>
    /\ mediaRecorder' = 0
    /\ \A s \in Starts :
         /\ enc'[s].state = "none"
         /\ st'[s].pc \notin {"preview", "pip", "done"}
         /\ (st[s].pc # "failed" /\ st'[s].pc = "failed" /\ nFault' = 0)
              => /\ \A t \in live' : ~(t[1] = s /\ IsSourceTrack(t))
                 /\ ~isRecording'

C18_NoCodecStartFails == [][C18_NoCodecStep]_vars

\* the first entry of the preference list that is in S, found by its index
FirstSupported(S) ==
  LET I == {i \in 1..Len(mimeTypes) : mimeTypes[i] \in S}
  IN mimeTypes[CHOOSE i \in I : \A j \in I : i <= j]

\* C19: for every subset of the preference list a host may support, the
\* negotiation selects the first supported entry in list order; the encoder
\* of every start that succeeds carries that type; a host that supports only
\* the last entry gets the last entry.
C19_FirstSupportedWins ==
  /\ \A S \in SUBSET AllCodecs :
       /\ S # {} => selectMimeType(S, 1) = FirstSupported(S)
       /\ S = {} => selectMimeType(S, 1) = ""
  /\ selectMimeType({mimeTypes[Len(mimeTypes)]}, 1) = mimeTypes[Len(mimeTypes)]
  /\ \A e \in Starts :
       enc[e].state # "none"
         => /\ host.codecs # {}
            /\ enc[e].mime = FirstSupported(host.codecs)
  /\ \A s \in Starts :
       (st[s].pc \in {"rollback", "failed"} /\ nFault = 0) => host.codecs = {}

\* C19, its case: the host supports the second and the last entry only, and
\* the encoder records with the second
C19_SecondOfTwoSelected ==
  \E e \in Starts :
    /\ host.codecs = {mimeTypes[2], mimeTypes[4]}
    /\ enc[e].state = "recording"
    /\ enc[e].mime = mimeTypes[2]
    /\ nPayload > 0

\* C20: in every reachable state, pause() turns the recorder's encoder from
\* recording to paused and resume() turns it from paused to recording,
\* changing nothing else; in any other state, and without an encoder, either
\* call leaves the whole state as it is; the chunk queue, the streams and
\* isRecording are never changed by either.
C20_PauseResumeFrame ==
  LET e == mediaRecorder
      p == pause(Cur)
      r == resume(Cur)
      onlyEncoderState(w) ==
        /\ [w EXCEPT !.enc = enc] = Cur
        /\ \A f \in Starts \ {e} : w.enc[f] = enc[f]
        /\ [w.enc[e] EXCEPT !.state = enc[e].state] = enc[e]
  IN /\ IF e # 0 /\ enc[e].state = "recording"
        THEN p.enc[e].state = "paused" /\ onlyEncoderState(p)
        ELSE p = Cur
     /\ IF e # 0 /\ enc[e].state = "paused"
        THEN r.enc[e].state = "recording" /\ onlyEncoderState(r)
        ELSE r = Cur
     /\ p.chunks = chunks /\ r.chunks = chunks
     /\ p.streams = streams /\ r.streams = streams
     /\ p.isRecording = isRecording /\ r.isRecording = isRecording

\* C20, its case: the encoder was paused while recording with chunks queued,
\* and the controller shows it paused
C20_PausedWithChunks ==
  /\ mediaRecorder # 0
  /\ enc[mediaRecorder].state = "paused"
  /\ app.isPaused
  /\ isRecording
  /\ Len(chunks) > 0
  /\ streams # NoStreams

\* C21: every change of an encoder's state is one of: not yet built to
\* recording, in the step in which its start() resolves; recording to paused
\* and paused to recording, on the recorder's current encoder, by pause() and
\* resume(); recording or paused to inactive, with the closing task queued
\* (stop(), cleanup()) or already run (the encoder stopped by itself). An
\* inactive encoder never changes state again.
C21_EncoderStep ==
  \A e \in Starts :
    enc'[e].state # enc[e].state =>
      \/ /\ enc[e].state = "none" /\ enc'[e].state = "recording"
         /\ st[e].pc \in InFlight
         /\ st'[e].pc \in {"preview", "pip", "done"}
         /\ mediaRecorder' = e
         /\ isRecording'
      \/ /\ enc[e].state = "recording" /\ enc'[e].state = "paused"
         /\ mediaRecorder = e
         /\ app'.isPaused
      \/ /\ enc[e].state = "paused" /\ enc'[e].state = "recording"
         /\ mediaRecorder = e
         /\ ~app'.isPaused
      \/ /\ enc[e].state \in {"recording", "paused"}
         /\ enc'[e].state = "inactive"
         /\ enc'[e].stopQueued \/ enc'[e].stopped

C21_EncoderStateMachine == [][C21_EncoderStep]_vars

\* C21, its case: an encoder that recorded and was paused has been asked to
\* stop and is waiting for its closing task
C21_StoppingWhilePaused ==
  \E e \in Starts, c \in Stops :
    /\ enc[e].state = "inactive"
    /\ enc[e].stopQueued
    /\ sp[c].status = "pending" /\ sp[c].enc = e /\ sp[c].active
    /\ app.isPaused
    /\ nPayload > 0

\* the recorder's fields and the platform objects behind them, in world w
RecorderState(w) ==
  [mediaRecorder |-> w.mediaRecorder, chunks |-> w.chunks,
   streams |-> w.streams, worker |-> w.worker, canvas |-> w.canvas,
   canvasStream |-> w.canvasStream, audioContext |-> w.audioContext,
   isRecording |-> w.isRecording, enc |-> w.enc, live |-> w.live,
   loops |-> w.loops, wrk |-> w.wrk, timer |-> w.timer, cv |-> w.cv,
   closing |-> w.closing]

\* C22: in every reachable state without an encoder, a stop() call resolves
\* with null and changes nothing of the recorder: no field, no stream or
\* track, no worker, canvas, timer or pending teardown.
C22_StopWithoutEncoder ==
  mediaRecorder = 0 =>
    \A c \in Stops :
      sp[c].status = "none" =>
        LET w == stop(Cur, c)
        IN /\ w.sp[c].status = "null"
           /\ w.sp[c].blob = NoBlob
           /\ RecorderState(w) = RecorderState(Cur)

\* C22, its case: a start had succeeded, a teardown removed its encoder
\* while the controller still showed a recording, and the stop() then called
\* resolved with null
C22_NullAfterCleanup ==
  \E c \in Stops, s \in Starts :
    /\ sp[c].status = "null"
    /\ sp[c].shown = "noData"
    /\ mediaRecorder = 0
    /\ st[s].pc \in {"preview", "pip", "done"}
    /\ enc[s].state = "inactive"

\* C23: wherever an encoder can fail, its error emits one 'error' event and
\* leaves the queue as it was, but for the encoder's own final payload going
\* through the bounded queue; the encoder ends inactive; and a stop() called
\* next on that encoder resolves with exactly the queued chunks, in order,
\* without starting the encoder again.
C23_ErrorKeepsChunks ==
  \A e \in Starts :
    EncActive(enc[e]) =>
      \A p \in Payloads(e) :
        LET w == encoderError(Cur, e, p)
            kept == IF Len(chunks) >= maxChunks THEN Tail(chunks) ELSE chunks
        IN /\ w.app.errors = app.errors + 1
           /\ w.chunks = IF Size(p) > 0 THEN Append(kept, p) ELSE chunks
           /\ w.enc[e].state = "inactive"
           /\ w.mediaRecorder = mediaRecorder
           /\ w.mediaRecorder = e =>
                \A c \in Stops :
                  sp[c].status = "none" =>
                    LET w2 == stop(w, c)
                    IN /\ w2.sp[c].status = "resolved"
                       /\ w2.sp[c].blob.data = w.chunks
                       /\ w2.sp[c].blob.type = enc[e].mime
                       /\ w2.enc[e].state = "inactive"

\* C23, its case: the recorder's encoder failed with chunks queued; the
\* chunks are still there, the encoder is inactive and no stop() was called
C23_FailedWithChunks ==
  \E e \in Starts :
    /\ mediaRecorder = e
    /\ enc[e].state = "inactive" /\ enc[e].stopped
    /\ app.errors = 1
    /\ nFault = 1
    /\ enc[e].stream \subseteq live
    /\ Len(chunks) = maxChunks
    /\ chunks = delivered
    /\ \A c \in Stops : sp[c].status = "none"

\* the frames of one origin the worker has received and not closed
Unreleased(origin) == {f \in wk.open : f[1] = origin}

\* C24: at every point of the compose loop the worker holds at most one
\* unreleased frame of the screen input and at most one of the webcam input.
C24_OneFramePerInput ==
  /\ Cardinality(Unreleased("screen")) <= 1
  /\ Cardinality(Unreleased("webcam")) <= 1

\* C25: once the compose loop has ended, by end-of-stream, by stop or by an
\* exception, every frame the worker read and every frame it composed has
\* been closed.
C25_AllFramesClosed ==
  wk.pc \in {"done", "failed"} => wk.open = {}

\* C26: from the moment a reader has reported end-of-stream no frame is
\* composed or written any more; the loop stays in the pending Promise.all
\* until the other read has settled and then ends, with the writer closed.
C26_EndOfStreamStep ==
  (wk'.s.done \/ wk'.w.done) =>
    /\ wk'.nComposed = wk.nComposed
    /\ wk'.written = wk.written
    /\ wk'.pc \in {"reading", "done"}
    /\ (wk'.s.settled /\ wk'.w.settled)
         => /\ wk'.pc = "done"
            /\ wk'.writer = "closed"

C26_EndOfStreamEndsLoop == [][C26_EndOfStreamStep]_vars

\* C26, its case: after one composed frame was written the screen reader
\* alone reported end-of-stream; the loop has ended and the writer is closed
C26_EndedByScreen ==
  /\ wk.pc = "done"
  /\ wk.s.done /\ ~wk.w.done
  /\ wk.isRunning
  /\ wk.written = 1
  /\ wk.nComposed = 1
  /\ wk.writer = "closed"

\* C27: a canvas composition that gets its metadata while a source stream
\* exists starts its redraw loop, whatever the encoder's state; a running
\* redraw loop ends only in a step that begins with both source streams
\* released, and then all loops end.
C27_RedrawStep ==
  /\ \A i \in cv \ cv' :
       (streams.screen # NoStream \/ streams.webcam # NoStream)
         => <<i.s, i.slot>> \in loops'
  /\ \A l \in loops \ loops' :
       /\ streams.screen = NoStream
       /\ streams.webcam = NoStream
       /\ loops' = {}

C27_RedrawUntilReleased == [][C27_RedrawStep]_vars

\* C27, its case: the redraw loop of a session is running while that
\* session's encoder is inactive after an error and the streams are held
C27_RedrawingWhileInactive ==
  \E l \in loops :
    /\ enc[l[1]].state = "inactive"
    /\ enc[l[1]].stopped
    /\ mediaRecorder = l[1]
    /\ app.errors = 1
    /\ streams.screen # NoStream
    /\ streams.webcam # NoStream

\* the audio inputs of start call s that are enabled: the microphone's track
\* if its toggle is on, the display's if its toggle is on and audio is shared
EnabledInputs(s) ==
  (IF st[s].cfg.audio.mic THEN {<<s, "webcamA">>} ELSE {})
  \cup
  (IF st[s].cfg.audio.system /\ host.displayAudio
   THEN {<<s, "screenA">>} ELSE {})

IsMixTrack(t) == t[2] \in {"mixW", "mixA", "mixB"}

\* the inputs connected to the destination whose track is m
FedBy(m) == {c[1] : c \in {d \in connected : d[2] = m}}

\* C28: the stream of a combined-mode encoder has at most one audio track;
\* it has none exactly when no audio input is enabled; where the audio graph
\* builds, the one track is the track of a mix to which exactly the enabled
\* inputs are connected. A webcam-only start asks for no system audio, has
\* no display stream, and its encoder's stream holds no display track.
C28_AtMostOneMixedTrack ==
  \A s \in Starts :
    /\ (st[s].cfg.mode = "combined" /\ enc[s].state # "none") =>
         LET A == {t \in enc[s].stream :
                     t[2] \in {"webcamA", "screenA", "mixW", "mixA", "mixB"}}
         IN /\ Cardinality(A) <= 1
            /\ A = {} <=> EnabledInputs(s) = {}
            /\ (EnabledInputs(s) # {} /\ host.mixThrows = "no") =>
                 \A m \in A : IsMixTrack(m) /\ FedBy(m) = EnabledInputs(s)
    /\ st[s].cfg.mode = "webcam" =>
         /\ ~st[s].cfg.audio.system
         /\ streams.screen = NoStream
         /\ \A t \in enc[s].stream \cup live :
              t[2] \notin {"screenV", "screenA"}

\* C28, its case: a combined-mode encoder records a stream whose one audio
\* track mixes the microphone and the shared display audio
C28_BothInputsMixed ==
  \E s \in Starts :
    /\ st[s].cfg.mode = "combined"
    /\ enc[s].state = "recording"
    /\ \E m \in enc[s].stream :
         IsMixTrack(m) /\ FedBy(m) = {<<s, "webcamA">>, <<s, "screenA">>}

\* the first collected input of start call s
FirstInput(s) ==
  IF st[s].cfg.audio.mic THEN <<s, "webcamA">> ELSE <<s, "screenA">>

\* setup of the composition of start call s succeeded in w: the call got
\* past setupStreams, its encoder records the recorder's combined stream,
\* and that stream is the video track v plus the first collected input
PassedThrough(w, s, v) ==
  /\ w.st[s].resolved
  /\ w.st[s].pc \notin {"compose", "rollback", "failed"}
  /\ w.streams.combined = {v, FirstInput(s)}
  /\ w.enc[s].state = "recording"
  /\ w.enc[s].stream = w.streams.combined

\* C29: on a host whose audio graph throws, wherever a composition of a
\* start with an enabled audio input is about to complete (the canvas gets
\* its metadata, or the worker reports ready), it completes with success.
C29_MixFailurePassesFirstTrack ==
  \A s \in Starts :
    (/\ host.mixThrows # "no"
     /\ st[s].pc = "compose" /\ ~st[s].resolved
     /\ EnabledInputs(s) # {}) =>
       /\ \A i \in cv :
            (i.s = s /\ i.loadable) =>
              PassedThrough(canvasLoaded(Cur, i), s, <<s, "canv" \o i.slot>>)
       /\ wrk[s] = "init" =>
            PassedThrough(workerReady(Cur, s), s, <<s, "gen">>)

\* C29, its case: the graph threw and the encoder records the composed
\* video with the display's audio track, the microphone being off
C29_RecordingUnmixedDisplayAudio ==
  \E s \in Starts :
    /\ host.mixThrows # "no"
    /\ st[s].cfg.mode = "combined"
    /\ enc[s].state = "recording"
    /\ <<s, "screenA">> \in enc[s].stream
    /\ <<s, "canvA">> \in enc[s].stream
    /\ connected = {}

\* C30: in the step in which a combined-mode start chooses its compositor, a
\* worker is created for it exactly if both capabilities are set, and
\* otherwise a canvas composition is begun; in no other step does a start
\* get a worker; and once a canvas composition was begun for a start, its
\* worker, if it had one, only fails or is terminated.
C30_ChoiceStep ==
  \A s \in Starts :
    /\ (st[s].pc = "acqWebcam" /\ st'[s].pc = "compose") =>
         IF host.webCodecs /\ host.offscreenCanvas
         THEN wrk'[s] # "none" /\ worker' = s
         ELSE wrk'[s] = "none" /\ st'[s].ncv = 1 /\ canvas' = s
    /\ (wrk[s] = "none" /\ wrk'[s] # "none") =>
         st[s].pc = "acqWebcam" /\ st'[s].pc = "compose"
    /\ (st[s].ncv > 0 /\ wrk'[s] # wrk[s]) =>
         wrk'[s] \in {"failed", "terminated"}

C30_CompositorChoice == [][C30_ChoiceStep]_vars

\* C30, its case: with webCodecs but no offscreenCanvas a combined-mode
\* start records from the canvas, and never had a worker
C30_OneCapabilityRecordsFromCanvas ==
  \E s \in Starts :
    /\ host.webCodecs /\ ~host.offscreenCanvas
    /\ st[s].cfg.mode = "combined"
    /\ enc[s].state = "recording"
    /\ wrk[s] = "none"
    /\ <<s, "canvA">> \in enc[s].stream

\* C31: in a run of one session in combined mode that was not torn down
\* while starting, while the encoder is
\* recording or paused its stream is the recorder's current combined stream,
\* and the video track of that stream is produced by the compositor that is
\* running: the recorder's worker, ready, for the generator's track, a
\* scheduled redraw loop for a canvas track.
C31_EncoderFedByActiveCompositor ==
  \A s \in Starts :
    (/\ budget.starts = 1
     /\ st[s].cfg.mode = "combined"
     /\ ~st[s].torn
     /\ EncActive(enc[s])) =>
       /\ enc[s].stream = streams.combined
       /\ <<s, "gen">> \in enc[s].stream => worker = s /\ wrk[s] = "ready"
       /\ <<s, "canvA">> \in enc[s].stream => <<s, "A">> \in loops
       /\ <<s, "canvB">> \in enc[s].stream => <<s, "B">> \in loops

\* no cleanup() call is suspended closing the audio context
NoCleanupInFlight ==
  closing = 0 /\ \A s \in Starts : st[s].pc # "rollback"

\* C32: in a run of one session, a step that begins with no cleanup() in
\* flight and emits 'dataavailable' (and so enqueues a chunk) delivers a
\* payload of the encoder the recorder holds at that moment; an encoder the
\* recorder has dropped enqueues and emits nothing.
C32_DeliveryStep ==
  (/\ budget.starts = 1
   /\ NoCleanupInFlight
   /\ Len(emitted') > Len(emitted)) =>
     /\ mediaRecorder # 0
     /\ emitted'[Len(emitted')].enc = mediaRecorder

C32_OnlyCurrentEncoderDelivers == [][C32_DeliveryStep]_vars

\* C33: in a run of one session without disruption, no stop() call is
\* rejected, and a stop() call that was made while the encoder was recording
\* or paused resolves with an artifact that holds the encoder's final
\* payload, if that was not empty.
C33_OverlappingStopsResolve ==
  (budget.starts = 1 /\ nFault = 0) =>
    \A c \in Stops :
      /\ sp[c].status # "rejected"
      /\ (sp[c].status = "resolved" /\ sp[c].active
            /\ enc[sp[c].enc].final > 0) =>
           \E i \in 1..Len(sp[c].blob.data) :
             sp[c].blob.data[i].n = enc[sp[c].enc].final

\* C34: in a run without disruption, a step that resumes a cleanup() which
\* was suspended closing the audio context leaves alone what belongs to a
\* session that no stop() was called on and that was not torn down while
\* starting: the queue of its encoder, its worker, its audio context and its
\* canvas.
C34_RemainderStep ==
  \A s \in Starts :
    (/\ closing' < closing
     /\ nFault = 0
     /\ ~st[s].torn
     /\ \A c \in Stops : sp[c].enc # s) =>
       /\ mediaRecorder = s => chunks' = chunks
       /\ worker = s => worker' = s /\ wrk'[s] = wrk[s]
       /\ audioContext = s => audioContext' = s
       /\ canvas = s => canvas' = s

C34_TeardownSparesNextSession == [][C34_RemainderStep]_vars

\* C35: in a run of one session without disruption, a step in which the
\* readiness timer of a start fires after a cleanup() has released the
\* streams, dropped the encoder and completed begins no canvas composition
\* and changes no field of the recorder.
C35_TimerStep ==
  \A s \in Starts :
    (/\ budget.starts = 1
     /\ nFault = 0
     /\ timer[s] = "armed" /\ timer'[s] = "fired"
     /\ streams = NoStreams
     /\ mediaRecorder = 0
     /\ NoCleanupInFlight
     /\ st[s].pc \notin {"acqScreen", "acqWebcam", "compose"}) =>
       /\ st'[s].ncv = st[s].ncv
       /\ cv' = cv
       /\ loops' = loops
       /\ canvas' = canvas
       /\ RecorderState(Cur)' = RecorderState(Cur)

C35_TimerAfterTeardownIsInert == [][C35_TimerStep]_vars

\* no start(), stop() or cleanup() call of the recorder is in flight
NoOperationInFlight ==
  /\ NoCleanupInFlight
  /\ \A s \in Starts : st[s].pc \notin InFlight
  /\ \A c \in Stops : sp[c].status # "pending"
  /\ \A e \in Starts : ~enc[e].stopQueued

\* C36: in a run of one session, whenever no operation of the recorder is in
\* flight, isRecording is true exactly when the recorder holds an encoder
\* that is recording or paused.
C36_IsRecordingMatchesEncoder ==
  (budget.starts = 1 /\ NoOperationInFlight) =>
    (isRecording <=>
       (mediaRecorder # 0 /\ EncActive(enc[mediaRecorder])))

\* what updateUI last displayed
Displayed ==
  IF ~app.uiRec THEN "ready"
  ELSE IF app.uiPaused THEN "paused" ELSE "recording"

\* what the encoder's state would display
EncoderDisplay ==
  IF mediaRecorder # 0 /\ EncActive(enc[mediaRecorder])
  THEN enc[mediaRecorder].state ELSE "ready"

\* no startRecording() or stopRecording() of the controller is in flight
NoControllerOperation ==
  /\ \A s \in Starts : st[s].pc \in {"none", "done", "failed"}
  /\ \A c \in Stops : sp[c].status # "pending"

\* C37: in a run of one session, whenever no controller operation is in
\* flight the displayed state is the encoder's: ready when the recorder has
\* no encoder or an inactive one, recording when it is recording, paused
\* when it is paused.
C37_DisplayMatchesEncoder ==
  (budget.starts = 1 /\ NoControllerOperation) => Displayed = EncoderDisplay

====
